---- MODULE Spec2Model ----
(***************************************************************************)
(* Model of server/main.py: the /caption-image handler (caption_image),    *)
(* its two stages (query_image, generate_story) and the remote endpoints   *)
(* they call through requests.post.                                        *)
(*                                                                         *)
(* Text is a sequence of symbols.  A symbol is one whitespace character    *)
(* (SP, NL), or one word or fixed phrase of the source's literals; media   *)
(* types are spelled character by character.                               *)
(***************************************************************************)
EXTENDS Integers, Sequences, FiniteSets, TLC

VARIABLES
    pc,              \* position of the handler in caption_image
    jsonErrIsReqExc, \* build: response.json() raises a RequestException subclass
    contentType,     \* file.content_type  ([present, v]; present = FALSE is None)
    prompt,          \* the prompt query parameter
    uploadRead,      \* file.read() was awaited
    captionCalls,    \* requests.post calls made to CAPTION_API_URL
    storyCalls,      \* requests.post calls made to STORY_API_URL
    captionOutcome,  \* what the captioning endpoint answered
    captionResult,   \* what query_image returned or raised
    caption,         \* the local variable caption of caption_image
    storyArg,        \* the caption argument generate_story was called with
    sentInputs,      \* payload["inputs"] of the story request
    storyOutcome,    \* what the story endpoint answered
    storyResult,     \* what generate_story returned or raised
    response         \* what the handler returned or raised

vars == << pc, jsonErrIsReqExc, contentType, prompt, uploadRead, captionCalls,
           storyCalls, captionOutcome, captionResult, caption, storyArg,
           sentInputs, storyOutcome, storyResult, response >>

(***************************************************************************)
(* Bounds of the model.                                                    *)
(***************************************************************************)
\* Cap of the call counters (the code has no counter; a handler that never
\* repeats a call stays below it).
MaxCalls == 2
\* Longest prefix of the composed prompt that the story endpoint may echo
\* in front of, or leave out of the end of, its generated text.
MaxCut == 2

(***************************************************************************)
(* Text helpers: Python's str methods on sequences of symbols.             *)
(***************************************************************************)
SP == " "
NL == "\n"
Whitespace == {SP, NL}

\* s[i:] with i counted from 0
Drop(s, i) == SubSeq(s, i + 1, Len(s))

\* `p in s`
Contains(s, p) ==
    \E i \in 0..(Len(s) - Len(p)) : SubSeq(s, i + 1, i + Len(p)) = p

\* the media type check written as `"image/" in content_type`
StartsWithAnywhere(s, p) == Contains(s, p)

\* s.startswith(p)
StartsWith(s, p) ==
    /\ Len(p) <= Len(s)
    /\ SubSeq(s, 1, Len(p)) = p

\* s.endswith(p)
EndsWith(s, p) ==
    /\ Len(p) <= Len(s)
    /\ Drop(s, Len(s) - Len(p)) = p

\* s.replace(old, "") for a non-empty old: every non-overlapping occurrence,
\* found left to right, is removed in one pass.
RECURSIVE Replace(_, _)
Replace(s, old) ==
    IF Len(s) < Len(old) THEN s
    ELSE IF SubSeq(s, 1, Len(old)) = old
         THEN Replace(Drop(s, Len(old)), old)
         ELSE <<Head(s)>> \o Replace(Tail(s), old)

RECURSIVE LStrip(_)
LStrip(s) ==
    IF s # <<>> /\ Head(s) \in Whitespace THEN LStrip(Tail(s)) ELSE s

RECURSIVE RStrip(_)
RStrip(s) ==
    IF s # <<>> /\ s[Len(s)] \in Whitespace
    THEN RStrip(SubSeq(s, 1, Len(s) - 1))
    ELSE s

\* s.strip()
Strip(s) == RStrip(LStrip(s))

(***************************************************************************)
(* Exceptions and results.  An exception is [type, status, detail]; status *)
(* is HTTPException.status_code, or the response's status_code for a       *)
(* requests HTTPError, else 0.  detail is [msg, cause, code]: the literal  *)
(* part of the message and the str(e) it was formatted with.               *)
(***************************************************************************)
NoDetail == [msg |-> "", cause |-> "", code |-> 0]

NoExc == [type |-> "", status |-> 0, detail |-> NoDetail]

PyExc(t, s) == [type |-> t, status |-> s, detail |-> NoDetail]

\* HTTPException(status_code = s, detail = msg)
HTTPException(s, m) ==
    [type |-> "HTTPException", status |-> s,
     detail |-> [msg |-> m, cause |-> "", code |-> 0]]

\* HTTPException(status_code = s, detail = f"{msg}{str(e)}")
HTTPExceptionFrom(s, m, e) ==
    [type |-> "HTTPException", status |-> s,
     detail |-> [msg |-> m, cause |-> e.type, code |-> e.status]]

\* The classes an exception is an instance of (requests.exceptions, builtins)
Classes(t) ==
    CASE t = "ReadTimeout"              -> {"Timeout", "RequestException", "Exception"}
      [] t = "ConnectTimeout"           -> {"Timeout", "ConnectionError", "RequestException", "Exception"}
      [] t = "ConnectionError"          -> {"ConnectionError", "RequestException", "Exception"}
      [] t = "HTTPError"                -> {"HTTPError", "RequestException", "Exception"}
      [] t = "requests.JSONDecodeError" -> {"RequestException", "ValueError", "Exception"}
      [] t = "json.JSONDecodeError"     -> {"ValueError", "Exception"}
      [] OTHER                          -> {t, "Exception"}

IsInstance(e, cls) == cls \in Classes(e.type)

(***************************************************************************)
(* The remote endpoints.  A body is the JSON the endpoint sent: a list of  *)
(* candidates, an object, a scalar, or text that is no JSON.  A candidate  *)
(* is an object that has, or lacks, "generated_text".                      *)
(***************************************************************************)
Cand(t) == [has_text |-> TRUE, generated_text |-> t]

CandNoText == [has_text |-> FALSE, generated_text |-> <<>>]

ListBody(items) == [json |-> "list", items |-> items]

DictBody == [json |-> "dict", items |-> <<>>]

ScalarBody == [json |-> "scalar", items |-> <<>>]

InvalidBody == [json |-> "invalid", items |-> <<>>]

MalformedBodies ==
    { ListBody(<<>>), ListBody(<<CandNoText>>), DictBody, ScalarBody, InvalidBody }

\* The status codes a final response is drawn from
Statuses == {200, 300, 404, 500, 503}

TransportErrors == {"ReadTimeout", "ConnectTimeout", "ConnectionError"}

Response(s, b) == [kind |-> "response", status |-> s, body |-> b]

TransportError(t) == [kind |-> t, status |-> 0, body |-> InvalidBody]

NoOutcome == [kind |-> "none", status |-> 0, body |-> InvalidBody]

Outcomes(bodies) ==
    { TransportError(t) : t \in TransportErrors }
        \cup { Response(s, b) : s \in Statuses, b \in bodies }

\* response.raise_for_status(): raises HTTPError for 4xx and 5xx
RaisesForStatus(s) == 400 <= s /\ s < 600

\* the exception response.json() raises on a body that is no JSON
JsonError == IF jsonErrIsReqExc THEN "requests.JSONDecodeError"
             ELSE "json.JSONDecodeError"

Return(v) == [kind |-> "return", value |-> v, exc |-> NoExc]

Raise(e, v) == [kind |-> "raise", value |-> v, exc |-> e]

\* x[0].get("generated_text", "") behind a length check: a missing candidate
\* or field reads as the empty text
FirstGeneratedTextLenient(b) ==
    IF b.json = "list" /\ b.items # <<>> /\ b.items[1].has_text
    THEN Return(b.items[1].generated_text)
    ELSE Return(<<>>)

\* x[0]["generated_text"].strip()
FirstGeneratedTextStripped(b) ==
    IF b.json = "dict" THEN Raise(PyExc("KeyError", 0), <<>>)
    ELSE IF b.json = "scalar" THEN Raise(PyExc("TypeError", 0), <<>>)
    ELSE IF b.items = <<>> THEN Raise(PyExc("IndexError", 0), <<>>)
    ELSE IF ~b.items[1].has_text THEN Raise(PyExc("KeyError", 0), <<>>)
    ELSE Return(Strip(b.items[1].generated_text))

\* x[0]["generated_text"] on a parsed body
FirstGeneratedText(b) ==
    IF b.json = "dict" THEN Raise(PyExc("KeyError", 0), <<>>)
    ELSE IF b.json = "scalar" THEN Raise(PyExc("TypeError", 0), <<>>)
    ELSE IF b.items = <<>> THEN Raise(PyExc("IndexError", 0), <<>>)
    ELSE IF ~b.items[1].has_text THEN Raise(PyExc("KeyError", 0), <<>>)
    ELSE Return(b.items[1].generated_text)

(***************************************************************************)
(* query_image                                                             *)
(***************************************************************************)
\* the body of the try block: post, 503 check, raise_for_status, json()
QueryImageTry(o) ==
    IF o.kind # "response" THEN Raise(PyExc(o.kind, 0), InvalidBody)
    ELSE IF o.status = 503
         THEN Raise(HTTPException(503,
                "Model is currently loading. Please try again in a few seconds."),
                InvalidBody)
    ELSE IF RaisesForStatus(o.status)
         THEN Raise(PyExc("HTTPError", o.status), InvalidBody)
    ELSE IF o.body.json = "invalid" THEN Raise(PyExc(JsonError, 0), InvalidBody)
    ELSE Return(o.body)

\* the except clauses, in order: Timeout, then RequestException
QueryImage(o) ==
    LET r == QueryImageTry(o) IN
    IF r.kind = "return" THEN r
    ELSE IF IsInstance(r.exc, "Timeout")
         THEN Raise(HTTPException(504,
                "Request timed out. The server took too long to respond."),
                InvalidBody)
    ELSE IF IsInstance(r.exc, "RequestException")
         THEN Raise(HTTPExceptionFrom(500,
                "Error communicating with image captioning service: ", r.exc),
                InvalidBody)
    ELSE r

(***************************************************************************)
(* generate_story                                                          *)
(***************************************************************************)
Preamble ==
    << "Write a creative and engaging short story based on this image description and prompt.",
       NL, NL, "Image Description:", SP >>

ContextLabel == << NL, "Additional Context:", SP >>

Filler == << "Tell an interesting story about this scene." >>

Cue == << NL, NL, "Story:" >>

\* story_prompt without the fallback of an empty prompt
ComposePromptNoDefault(c, p) ==
    Preamble \o c \o ContextLabel \o p \o Cue

\* story_prompt
ComposePrompt(c, p) ==
    Preamble \o c \o ContextLabel \o (IF p # <<>> THEN p ELSE Filler) \o Cue

\* story.replace(story_prompt, "").strip()
StripStep(text, storyPrompt) == Strip(Replace(text, storyPrompt))

\* the body of the try block after the post
GenerateStoryTry(o, storyPrompt) ==
    IF o.kind # "response" THEN Raise(PyExc(o.kind, 0), <<>>)
    ELSE IF o.status = 503
         THEN Raise(HTTPException(503,
                "Story generation model is currently loading. Please try again in a few seconds."),
                <<>>)
    ELSE IF RaisesForStatus(o.status)
         THEN Raise(PyExc("HTTPError", o.status), <<>>)
    ELSE IF o.body.json = "invalid" THEN Raise(PyExc(JsonError, 0), <<>>)
    ELSE LET t == FirstGeneratedText(o.body) IN
         IF t.kind = "raise" THEN t
         ELSE Return(StripStep(t.value, storyPrompt))

\* the except clauses, in order: Timeout, then RequestException
GenerateStory(o, storyPrompt) ==
    LET r == GenerateStoryTry(o, storyPrompt) IN
    IF r.kind = "return" THEN r
    ELSE IF IsInstance(r.exc, "Timeout")
         THEN Raise(HTTPException(504,
                "Story generation timed out. Please try again."), <<>>)
    ELSE IF IsInstance(r.exc, "RequestException")
         THEN Raise(HTTPExceptionFrom(500, "Error generating story: ", r.exc), <<>>)
    ELSE r

(***************************************************************************)
(* caption_image                                                           *)
(***************************************************************************)
ImagePrefix == << "i", "m", "a", "g", "e", "/" >>

\* a handler that repeats the call of the stage that raised
AfterStageFailureRetry(stage) ==
    IF stage = "caption" THEN "caption_call" ELSE "story_call"

\* where the handler goes when a stage raised: the exception leaves the
\* handler, nothing is called again
AfterStageFailure(stage) == "done"

NoResponse ==
    [kind |-> "none", status |-> 0, exc |-> NoExc,
     has_caption |-> FALSE, caption |-> <<>>, has_story |-> FALSE, story |-> <<>>]

\* return {"caption": caption, "story": story}
Returned(c, s) ==
    [kind |-> "return", status |-> 200, exc |-> NoExc,
     has_caption |-> TRUE, caption |-> c, has_story |-> TRUE, story |-> s]

\* an exception leaves the handler: an HTTPException carries the status and
\* the detail of the error response; any other is no response of the handler
Raised(e) ==
    [kind |-> IF e.type = "HTTPException" THEN "HTTPException" ELSE "unhandled",
     status |-> IF e.type = "HTTPException" THEN e.status ELSE 0,
     exc |-> e,
     has_caption |-> FALSE, caption |-> <<>>, has_story |-> FALSE, story |-> <<>>]

\* a handler without `except HTTPException: raise`
HandlerExceptRewrap(e) ==
    Raised(HTTPExceptionFrom(500, "An unexpected error occurred: ", e))

\* a handler that answers a failure with what it has so far
HandlerExceptPartial(e) == Returned(caption, <<>>)

\* `except HTTPException: raise` and `except Exception as e: raise ...`
HandlerExcept(e) ==
    IF IsInstance(e, "HTTPException") THEN Raised(e)
    ELSE Raised(HTTPExceptionFrom(500, "An unexpected error occurred: ", e))

(***************************************************************************)
(* Inputs                                                                  *)
(***************************************************************************)
MediaType(v) == [present |-> TRUE, v |-> v]

\* an upload part without a Content-Type header: content_type is None
NoMediaType == [present |-> FALSE, v |-> <<>>]

ImageTypes ==
    { ImagePrefix \o <<"p", "n", "g">>, ImagePrefix }

NonImageTypes ==
    { <<"t", "e", "x", "t", "/", "p">>,
      <<"i", "m", "a", "g", "e">>,
      <<"x">> \o ImagePrefix \o <<"p">>,
      <<"I", "M", "A", "G", "E", "/", "p">>,
      <<>> }

ContentTypes ==
    { MediaType(v) : v \in ImageTypes \cup NonImageTypes } \cup { NoMediaType }

Prompts == { <<>>, <<"castle">>, Filler }

\* generated texts of the captioning endpoint
Captions == { <<"dog">>, <<SP, "dog", SP, "runs", NL>>, <<"sign:", SP>> \o Filler, <<>> }

CaptionBodies ==
    { ListBody(<<Cand(c)>>) : c \in Captions }
        \cup { ListBody(<<Cand(<<"dog">>), Cand(<<"cat">>)>>),
               ListBody(<<CandNoText, Cand(<<"dog">>)>>) }
        \cup MalformedBodies

\* generated texts of the story endpoint for a request that sent storyPrompt:
\* free text, the prompt echoed in front of the story, and the prompt echoed
\* inside, before or after a piece of itself
Leads(storyPrompt) ==
    { <<>>, <<SP>>, <<"Once">> }
        \cup { SubSeq(storyPrompt, 1, k) : k \in 1..MaxCut }

Trails(storyPrompt) ==
    { <<>>, <<NL, "Once", SP>>, <<"Once">> }
        \cup { Drop(storyPrompt, k) : k \in 1..MaxCut }

RawTexts(storyPrompt) ==
    { x \o y \o z : x \in Leads(storyPrompt), y \in {<<>>, storyPrompt},
                    z \in Trails(storyPrompt) }

StoryBodies(storyPrompt) ==
    { ListBody(<<Cand(t)>>) : t \in RawTexts(storyPrompt) }
        \cup { ListBody(<<Cand(<<"Once">>), Cand(<<"Twice">>)>>),
               ListBody(<<CandNoText, Cand(<<"Once">>)>>) }
        \cup MalformedBodies

NoResult == [kind |-> "none", value |-> <<>>, exc |-> NoExc]

NoBodyResult == [kind |-> "none", value |-> InvalidBody, exc |-> NoExc]

(***************************************************************************)
(* The state machine                                                       *)
(***************************************************************************)
Init ==
    /\ pc = "idle"
    /\ jsonErrIsReqExc \in BOOLEAN
    /\ contentType = NoMediaType
    /\ prompt = <<>>
    /\ uploadRead = FALSE
    /\ captionCalls = 0
    /\ storyCalls = 0
    /\ captionOutcome = NoOutcome
    /\ captionResult = NoBodyResult
    /\ caption = <<>>
    /\ storyArg = <<>>
    /\ sentInputs = <<>>
    /\ storyOutcome = NoOutcome
    /\ storyResult = NoResult
    /\ response = NoResponse

\* POST /caption-image arrives; the media type is validated
Receive(ct, p) ==
    /\ pc = "idle"
    /\ contentType' = ct
    /\ prompt' = p
    /\ IF ~ct.present
       THEN /\ pc' = "done"
            /\ response' = Raised(PyExc("AttributeError", 0))
       ELSE IF ~StartsWith(ct.v, ImagePrefix)
       THEN /\ pc' = "done"
            /\ response' = Raised(HTTPException(400, "Uploaded file must be an image"))
       ELSE /\ pc' = "read"
            /\ response' = response
    /\ UNCHANGED << jsonErrIsReqExc, uploadRead, captionCalls, storyCalls,
                    captionOutcome, captionResult, caption, storyArg,
                    sentInputs, storyOutcome, storyResult >>

\* image_data = await file.read()
ReadUpload(ok) ==
    /\ pc = "read"
    /\ uploadRead' = TRUE
    /\ IF ok
       THEN /\ pc' = "caption_call"
            /\ response' = response
       ELSE /\ pc' = "done"
            /\ response' = HandlerExcept(PyExc("OSError", 0))
    /\ UNCHANGED << jsonErrIsReqExc, contentType, prompt, captionCalls,
                    storyCalls, captionOutcome, captionResult, caption,
                    storyArg, sentInputs, storyOutcome, storyResult >>

\* query_image posts the image to CAPTION_API_URL
CaptionPost ==
    /\ pc = "caption_call"
    /\ captionCalls < MaxCalls
    /\ captionCalls' = captionCalls + 1
    /\ pc' = "caption_wait"
    /\ UNCHANGED << jsonErrIsReqExc, contentType, prompt, uploadRead,
                    storyCalls, captionOutcome, captionResult, caption,
                    storyArg, sentInputs, storyOutcome, storyResult, response >>

\* the captioning endpoint answers (or the post raises); query_image ends and
\* the handler extracts the caption
CaptionReply(o) ==
    /\ pc = "caption_wait"
    /\ captionOutcome' = o
    /\ LET r == QueryImage(o)
           t == FirstGeneratedText(r.value)
       IN /\ captionResult' = r
          /\ IF r.kind = "raise"
             THEN /\ pc' = AfterStageFailure("caption")
                  /\ response' = HandlerExcept(r.exc)
                  /\ caption' = caption
             ELSE IF t.kind = "raise"
             THEN /\ pc' = "done"
                  /\ response' = HandlerExcept(t.exc)
                  /\ caption' = caption
             ELSE /\ pc' = "story_call"
                  /\ response' = response
                  /\ caption' = t.value
    /\ UNCHANGED << jsonErrIsReqExc, contentType, prompt, uploadRead,
                    captionCalls, storyCalls, storyArg, sentInputs,
                    storyOutcome, storyResult >>

\* generate_story(caption, prompt) composes the prompt and posts it
StoryPost ==
    /\ pc = "story_call"
    /\ storyCalls < MaxCalls
    /\ storyArg' = caption
    /\ sentInputs' = ComposePrompt(caption, prompt)
    /\ storyCalls' = storyCalls + 1
    /\ pc' = "story_wait"
    /\ UNCHANGED << jsonErrIsReqExc, contentType, prompt, uploadRead,
                    captionCalls, captionOutcome, captionResult, caption,
                    storyOutcome, storyResult, response >>

\* the story endpoint answers (or the post raises); generate_story ends and
\* the handler returns or raises
StoryReply(o) ==
    /\ pc = "story_wait"
    /\ storyOutcome' = o
    /\ LET r == GenerateStory(o, sentInputs)
       IN /\ storyResult' = r
          /\ IF r.kind = "raise"
             THEN /\ pc' = AfterStageFailure("story")
                  /\ response' = HandlerExcept(r.exc)
             ELSE /\ pc' = "done"
                  /\ response' = Returned(caption, r.value)
    /\ UNCHANGED << jsonErrIsReqExc, contentType, prompt, uploadRead,
                    captionCalls, storyCalls, captionOutcome, captionResult,
                    caption, storyArg, sentInputs >>

Next ==
    \/ \E ct \in ContentTypes, p \in Prompts : Receive(ct, p)
    \/ \E ok \in BOOLEAN : ReadUpload(ok)
    \/ CaptionPost
    \/ \E o \in Outcomes(CaptionBodies) : CaptionReply(o)
    \/ StoryPost
    \/ /\ pc = "story_wait"
       /\ \E o \in Outcomes(StoryBodies(sentInputs)) : StoryReply(o)

Spec == Init /\ [][Next]_vars

(***************************************************************************)
(* Properties                                                              *)
(***************************************************************************)
Timeouts == {"ReadTimeout", "ConnectTimeout"}

\* the response is the error response of HTTPException(status, detail)
IsError(status) ==
    /\ response.kind = "HTTPException"
    /\ response.status = status
    /\ response.exc.detail.msg # ""

\* C1: a request whose declared media type does not begin with "image/" is
\* answered 400 "Uploaded file must be an image"; the upload is never read and
\* neither endpoint is ever called.  (An upload that declares no media type
\* at all makes no call and reads nothing either.)
C1_NonImageRejected ==
    /\ (pc # "idle" /\ contentType.present /\ contentType.v \in NonImageTypes)
          => /\ pc = "done"
             /\ IsError(400)
             /\ response.exc.detail.msg = "Uploaded file must be an image"
             /\ ~uploadRead
             /\ captionCalls = 0
             /\ storyCalls = 0
    /\ (pc # "idle" /\ ~contentType.present)
          => ~uploadRead /\ captionCalls = 0 /\ storyCalls = 0

C1_Witness ==
    /\ pc = "done"
    /\ contentType = MediaType(<<"x">> \o ImagePrefix \o <<"p">>)
    /\ response.status = 400
    /\ captionCalls = 0

\* C2: when query_image raises, generate_story is never called, and when what
\* it raised is an HTTPException (503, 504 for a timeout, 500 for any other
\* requests error) the client gets exactly that status and detail.
C2_CaptionFailurePropagates ==
    captionResult.kind = "raise"
        => /\ storyCalls = 0
           /\ storyOutcome = NoOutcome
           /\ pc = "done"
           /\ captionResult.exc.type = "HTTPException"
                 => /\ response.kind = "HTTPException"
                    /\ response.status = captionResult.exc.status
                    /\ response.exc.detail = captionResult.exc.detail

C2_Witness ==
    /\ pc = "done"
    /\ captionOutcome.kind = "response"
    /\ captionOutcome.status = 503
    /\ response.status = 503
    /\ storyCalls = 0

\* the status the claim C3 gives to a remote outcome that is no success
C3_StatusFor(o) ==
    IF o.kind \in Timeouts THEN 504
    ELSE IF o.kind = "response" /\ o.status = 503 THEN 503
    ELSE 500

C3_IsFailure(o) ==
    \/ o.kind \in TransportErrors
    \/ o.kind = "response" /\ ~(200 <= o.status /\ o.status < 300)

\* C3: in both stages a remote 503 gives 503, a timeout gives 504, and any
\* other non-success status or transport error gives 500: a request in which
\* an endpoint answered so ends in the error response of that status.
C3_StatusMapping ==
    pc = "done" =>
        /\ C3_IsFailure(captionOutcome) => IsError(C3_StatusFor(captionOutcome))
        /\ C3_IsFailure(storyOutcome) => IsError(C3_StatusFor(storyOutcome))

\* C4: a finished request either returned 200 with a caption and a story
\* after both stages returned, each called once and answered with a response
\* that raise_for_status accepts, or ended in an error that carries neither;
\* a story call that timed out after the caption was computed ends in the 504
\* error alone.
C4_AllOrNothing ==
    pc = "done" =>
        \/ /\ response.kind = "return"
           /\ response.status = 200
           /\ response.has_caption /\ response.has_story
           /\ captionResult.kind = "return" /\ storyResult.kind = "return"
           /\ captionCalls = 1 /\ storyCalls = 1
           /\ captionOutcome.kind = "response" /\ captionOutcome.status \in {200, 300}
           /\ storyOutcome.kind = "response" /\ storyOutcome.status \in {200, 300}
        \/ /\ response.kind \in {"HTTPException", "unhandled"}
           /\ ~response.has_caption /\ ~response.has_story
           /\ storyOutcome.kind \in Timeouts => IsError(504)

C4_Witness ==
    /\ pc = "done"
    /\ storyOutcome.kind = "ReadTimeout"
    /\ caption = <<"dog">>
    /\ response.status = 504
    /\ ~response.has_caption

\* C5: the story generate_story returns never begins with the composed
\* prompt, and the strip step applied to it again leaves it unchanged.
C5_StripOnceSuffices ==
    storyResult.kind = "return"
        => /\ ~StartsWith(storyResult.value, sentInputs)
           /\ StripStep(storyResult.value, sentInputs) = storyResult.value

\* a body a success status came with that lacks the expected index or field
C6_Malformed(o) ==
    /\ o.kind = "response"
    /\ 200 <= o.status /\ o.status < 300
    /\ \/ o.body.json # "list"
       \/ o.body.items = <<>>
       \/ ~o.body.items[1].has_text

\* C6: a success status with an empty candidate list, a first candidate
\* without "generated_text", a body that is no list or no JSON ends in a 500
\* error response with a detail, never in a 200 or an unhandled exception;
\* after such a captioning response the story endpoint is not called.
C6_MalformedIs500 ==
    /\ C6_Malformed(captionOutcome) => IsError(500) /\ storyCalls = 0 /\ pc = "done"
    /\ C6_Malformed(storyOutcome) => IsError(500) /\ pc = "done"

C6_Witness ==
    /\ pc = "done"
    /\ storyOutcome = Response(200, ListBody(<<>>))
    /\ captionOutcome.status = 200
    /\ response.status = 500
    /\ response.exc.detail.cause = "IndexError"

\* C7 as claimed: the instruction sent contains the filler sentence exactly
\* when the prompt is empty, has the prompt in the Additional Context
\* position when it is not, contains the caption and ends with the cue.
C7_FillerIffEmpty ==
    storyCalls > 0
        => /\ Contains(sentInputs, Filler) <=> prompt = <<>>
           /\ prompt # <<>> => EndsWith(sentInputs, ContextLabel \o prompt \o Cue)
           /\ Contains(sentInputs, storyArg)
           /\ EndsWith(sentInputs, Cue)

\* C7 as amended: the Additional Context position holds the filler sentence
\* when the prompt is empty and the literal prompt when it is not; the
\* instruction contains the filler sentence exactly when the prompt is empty
\* or the prompt or the caption itself contains it; it begins with the
\* preamble and the caption and ends with the cue.
C7_ContextPosition ==
    storyCalls > 0
        => /\ prompt = <<>> => EndsWith(sentInputs, ContextLabel \o Filler \o Cue)
           /\ prompt # <<>> => EndsWith(sentInputs, ContextLabel \o prompt \o Cue)
           /\ Contains(sentInputs, Filler)
                 <=> \/ prompt = <<>>
                     \/ Contains(prompt, Filler)
                     \/ Contains(storyArg, Filler)
           /\ StartsWith(sentInputs, Preamble \o storyArg \o ContextLabel)
           /\ EndsWith(sentInputs, Cue)

C7_Witness ==
    /\ storyCalls = 1
    /\ prompt = <<>>
    /\ storyArg = <<"dog">>
    /\ Contains(sentInputs, Filler)

\* C8: generate_story is called with exactly the "generated_text" of the
\* first candidate the captioning endpoint returned in this request, and the
\* caption of a 200 response is that same text.
C8_CaptionUnmodified ==
    storyCalls > 0
        => /\ captionOutcome.kind = "response"
           /\ captionOutcome.body.json = "list"
           /\ Len(captionOutcome.body.items) >= 1
           /\ captionOutcome.body.items[1].has_text
           /\ storyArg = captionOutcome.body.items[1].generated_text
           /\ response.kind = "return"
                 => response.caption = captionOutcome.body.items[1].generated_text

C8_Witness ==
    /\ pc = "done"
    /\ response.kind = "return"
    /\ Len(captionOutcome.body.items) = 1
    /\ response.caption = <<SP, "dog", SP, "runs", NL>>

C10_EveryFailureIsAnErrorResponse ==
    pc = "done" =>
        \/ /\ response.kind = "return"
           /\ captionResult.kind = "return"
           /\ storyResult.kind = "return"
        \/ /\ response.kind = "HTTPException"
           /\ response.status \in {400, 500, 503, 504}
           /\ response.exc.detail.msg # ""

====
